---- MODULE Spec2Model ----
(***************************************************************************)
(* Model of the verification-code cache of webook                          *)
(* (internal/repository/cache/code.go): LocalCodeCache, an in-process      *)
(* go-cache store guarded by one sync.Mutex, called concurrently by        *)
(* NumCallers goroutines; and RedisCodeCache, which runs the issue and     *)
(* verify procedures in the remote store and maps their integer reply to   *)
(* an outcome.  The two procedures (lua/set_code.lua, lua/verify_code.lua) *)
(* are not part of the sources; they are modelled from section 4.3 of the  *)
(* specification.                                                          *)
(*                                                                         *)
(* Time is counted in ticks of 1/TicksPerSec second.  go-cache keeps an    *)
(* item's expiration at clock resolution, while localCodeCacheValue keeps  *)
(* createTime as time.Now().Unix(), i.e. truncated to whole seconds.       *)
(***************************************************************************)
EXTENDS Integers, Sequences, FiniteSets, TLC

\* ---------------------------------------------------------------- bounds
NumCallers == 2
MaxAdvances == 2
TicksPerSec == 2
MapRange == 25

\* ------------------------------------------------------ program constants
CooldownSecs == 60
CodeTTLSecs == 300
ResidualSecs == 1
JanitorIntervalSecs == 600
InitTimes == 3
DisabledTimes == -1

ErrCodeSendTooMany == "ErrCodeSendTooMany"
ErrCodeVerifyTooManyTimes == "ErrCodeVerifyTooManyTimes"
ErrUnknownForCode == "ErrUnknownForCode"
nil == "nil"
SystemError == "SystemError"
ErrEval == "ErrEval"

\* ----------------------------------------------------------------- inputs
Callers == 1..NumCallers
Bizs == {"login"}
Phones == {"138"}
Codes == {"c1", "c2"}
Ops == {"Set", "Verify"}
KeyBizs == {"a", "a:b"}
KeyPhones == {"c", "b:c"}

\* Clock advances between two steps of the program.
Deltas ==
    { TicksPerSec + 1,
      CooldownSecs * TicksPerSec - 1, CooldownSecs * TicksPerSec,
      CodeTTLSecs * TicksPerSec, CodeTTLSecs * TicksPerSec + 1 }

\* ---------------------------------------------------------------- helpers
\* fmt.Sprintf("phone_code:%s:%s", biz, phone)
key(biz, phone) == "phone_code:" \o biz \o ":" \o phone

Keys == { key(b, ph) : b \in Bizs, ph \in Phones }

\* time.Now().Unix(): the clock truncated to whole seconds
Unix(t) == t \div TicksPerSec

\* a time.Duration of s seconds, in ticks
Seconds(s) == s * TicksPerSec

\* getValue(code): a fresh localCodeCacheValue
getValue(code, t) == [code |-> code, times |-> InitTimes, createTime |-> Unix(t)]

NoValue == [code |-> "", times |-> 0, createTime |-> 0]
NoCall == [op |-> "", biz |-> "", phone |-> "", code |-> "", ctxDone |-> FALSE]
NoReturn == [op |-> "", key |-> "", ok |-> FALSE, err |-> ""]
NoIssue == 0 - 1
NoRequest == [op |-> "", biz |-> "", phone |-> "", code |-> ""]
NoReply == [op |-> "", res |-> 0, err |-> ""]
NoOutcome == [ok |-> FALSE, err |-> ""]

VARIABLES
    now,        \* the wall clock, in ticks
    advances,   \* number of clock advances so far (bounded by MaxAdvances)
    cache,      \* go-cache items: key -> [object, expiration]
    mutex,      \* LocalCodeCache.mutex: the caller holding it, 0 when free
    pc,         \* per caller: "idle", "lock", "get", "put"
    call,       \* per caller: the arguments of the call in progress
    value,      \* per caller: Verify's local `value` (the object it found)
    last,       \* the call that returned last, with its result
    lastIssue,  \* per key: clock of the last Set that returned nil
    hits,       \* per key: Verify calls that returned true since the last issue
    misses,     \* per key: Verify calls that found a mismatch since the last issue
    redis,      \* the remote store: key -> [code, cnt, expireAt]
    req,        \* the call made last on both backends: [op, biz, phone, code]
    reply,      \* what Eval returned last to RedisCodeCache: [op, res, err]
    rlast,      \* what RedisCodeCache returned last: [ok, err]
    owner       \* per key: the (biz, phone) of the last Set that stored its record

\* the state outside LocalCodeCache and its callers
other == << redis, req, reply, rlast, owner >>

vars == << now, advances, cache, mutex, pc, call, value, last,
           lastIssue, hits, misses, redis, req, reply, rlast, owner >>

\* -------------------------------------------------------------- go-cache
\* go-cache: an item is expired when now > Expiration
Expired(item, t) == t > item.expiration

\* a Get that returns whatever is in the map, expired or not
FoundIgnoringExpiry(c, k, t) == k \in DOMAIN c

\* cache.Get: an item is found when it is in the map and not expired
Found(c, k, t) == k \in DOMAIN c /\ ~Expired(c[k], t)

\* cache.Set(k, object, d): insert or replace, expiring d after now
CachePut(c, k, object, d, t) ==
    [x \in DOMAIN c \cup {k} |->
        IF x = k THEN [object |-> object, expiration |-> t + d] ELSE c[x]]

\* the janitor's DeleteExpired
CacheDeleteExpired(c, t) ==
    [x \in {y \in DOMAIN c : ~Expired(c[y], t)} |-> c[x]]

\* ------------------------------------------------------------------ mutex
\* a Lock() that does not wait for the holder
CanLockNoMutex(p) == TRUE

\* c.mutex.Lock() returns only when no caller holds the mutex
CanLock(p) == mutex = 0

\* --------------------------------------------------------------- Set/Verify
\* line 142: time.Now().Unix()-value.createTime < 60
TooFrequent(object, t) == Unix(t) - object.createTime < CooldownSecs

\* a decrement written as an increment
Incremented(v) == [v EXCEPT !.times = @ + 1]

\* line 181: value.times--
Decremented(v) == [v EXCEPT !.times = @ - 1]

\* a match that leaves the attempts as they are
ConsumedKeepsTimes(v) == v

\* line 186: value.times = -1
Consumed(v) == [v EXCEPT !.times = DisabledTimes]

\* a lockout test that lets a record with 0 attempts through
ExhaustedBelowZero(v) == v.times < 0

\* line 174: value.times <= 0
Exhausted(v) == v.times <= 0

KeyOf(p) == key(call[p].biz, call[p].phone)

\* a return path that does not unlock
ReturnKeepsMutex(p, ok, err) ==
    /\ pc' = [pc EXCEPT ![p] = "idle"]
    /\ mutex' = mutex
    /\ value' = [value EXCEPT ![p] = NoValue]
    /\ call' = [call EXCEPT ![p] = NoCall]
    /\ last' = [op |-> call[p].op, key |-> KeyOf(p), ok |-> ok, err |-> err]

\* return through the deferred c.mutex.Unlock() (lines 130, 154)
Return(p, ok, err) ==
    /\ pc' = [pc EXCEPT ![p] = "idle"]
    /\ mutex' = 0
    /\ value' = [value EXCEPT ![p] = NoValue]
    /\ call' = [call EXCEPT ![p] = NoCall]
    /\ last' = [op |-> call[p].op, key |-> KeyOf(p), ok |-> ok, err |-> err]

\* A caller enters Set or Verify and blocks on c.mutex.Lock() (lines 129, 153).
Call(p) ==
    /\ pc[p] = "idle"
    /\ pc' = [pc EXCEPT ![p] = "lock"]
    /\ UNCHANGED << now, advances, cache, mutex, call, value, last,
                    lastIssue, hits, misses >>
    /\ UNCHANGED other

\* c.mutex.Lock() returns: the caller holds the mutex.  What the caller asked
\* for (Set or Verify, and its arguments) is read from here on only, so it is
\* drawn here.  ctxDone says whether the caller's ctx is already cancelled
\* or past its deadline; neither Set nor Verify ever reads ctx.
Lock(p) ==
    /\ pc[p] = "lock"
    /\ CanLock(p)
    /\ mutex' = p
    /\ \E op \in Ops, b \in Bizs, ph \in Phones, code \in Codes, done \in BOOLEAN :
          call' = [call EXCEPT ![p] = [op |-> op, biz |-> b, phone |-> ph,
                                       code |-> code, ctxDone |-> done]]
    /\ pc' = [pc EXCEPT ![p] = "get"]
    /\ UNCHANGED << now, advances, cache, value, last,
                    lastIssue, hits, misses >>
    /\ UNCHANGED other

\* a Set that stores the new record before it tests the cooldown
SetGetOverwrites(p) ==
    /\ pc[p] = "get"
    /\ call[p].op = "Set"
    /\ IF Found(cache, KeyOf(p), now) /\ TooFrequent(cache[KeyOf(p)].object, now)
         THEN /\ cache' = CachePut(cache, KeyOf(p), getValue(call[p].code, now),
                                   Seconds(CodeTTLSecs), now)
              /\ Return(p, FALSE, ErrCodeSendTooMany)
         ELSE /\ pc' = [pc EXCEPT ![p] = "put"]
              /\ UNCHANGED << cache, mutex, value, call, last >>
    /\ UNCHANGED << now, advances, lastIssue, hits, misses >>
    /\ UNCHANGED other

\* Set, lines 133-145: look the key up and test the cooldown.  The store
\* holds nothing but *localCodeCacheValue, so the type assertion of line 137
\* never fails.  ctx is not read.
SetGet(p) ==
    /\ pc[p] = "get"
    /\ call[p].op = "Set"
    /\ IF Found(cache, KeyOf(p), now) /\ TooFrequent(cache[KeyOf(p)].object, now)
         THEN /\ Return(p, FALSE, ErrCodeSendTooMany)
         ELSE /\ pc' = [pc EXCEPT ![p] = "put"]
              /\ UNCHANGED << mutex, value, call, last >>
    /\ UNCHANGED << now, advances, cache, lastIssue, hits, misses >>
    /\ UNCHANGED other

\* Set, lines 147-148: store the new record and return nil
SetPut(p) ==
    /\ pc[p] = "put"
    /\ call[p].op = "Set"
    /\ cache' = CachePut(cache, KeyOf(p), getValue(call[p].code, now),
                         Seconds(CodeTTLSecs), now)
    /\ Return(p, TRUE, nil)
    /\ lastIssue' = [lastIssue EXCEPT ![KeyOf(p)] = now]
    /\ hits' = [hits EXCEPT ![KeyOf(p)] = 0]
    /\ misses' = [misses EXCEPT ![KeyOf(p)] = 0]
    /\ UNCHANGED << now, advances >>
    /\ UNCHANGED other

\* a Verify that stores the locked-out record again, with a fresh expiry
VerifyGetRefreshes(p) ==
    /\ pc[p] = "get"
    /\ call[p].op = "Verify"
    /\ IF ~Found(cache, KeyOf(p), now)
         THEN Return(p, FALSE, ErrUnknownForCode) /\ UNCHANGED cache
         ELSE IF Exhausted(cache[KeyOf(p)].object)
                THEN /\ Return(p, FALSE, ErrCodeVerifyTooManyTimes)
                     /\ cache' = CachePut(cache, KeyOf(p), cache[KeyOf(p)].object,
                                          Seconds(CodeTTLSecs), now)
                ELSE /\ value' = [value EXCEPT ![p] = cache[KeyOf(p)].object]
                     /\ pc' = [pc EXCEPT ![p] = "put"]
                     /\ UNCHANGED << mutex, call, last, cache >>
    /\ UNCHANGED << now, advances, lastIssue, hits, misses >>
    /\ UNCHANGED other

\* Verify, lines 157-176: look the key up and test the attempts left.  The
\* type assertion of line 166 never fails; ctx is not read.  `value` points
\* to the stored object, which nothing else writes while p holds the mutex.
VerifyGet(p) ==
    /\ pc[p] = "get"
    /\ call[p].op = "Verify"
    /\ IF ~Found(cache, KeyOf(p), now)
         THEN Return(p, FALSE, ErrUnknownForCode)
         ELSE IF Exhausted(cache[KeyOf(p)].object)
                THEN Return(p, FALSE, ErrCodeVerifyTooManyTimes)
                ELSE /\ value' = [value EXCEPT ![p] = cache[KeyOf(p)].object]
                     /\ pc' = [pc EXCEPT ![p] = "put"]
                     /\ UNCHANGED << mutex, call, last >>
    /\ UNCHANGED << now, advances, cache, lastIssue, hits, misses >>
    /\ UNCHANGED other

\* a mismatch that stores a record stamped anew
VerifyMismatchRestamps(p) ==
    /\ pc[p] = "put"
    /\ call[p].op = "Verify"
    /\ value[p].code # call[p].code
    /\ cache' = CachePut(cache, KeyOf(p),
                         [getValue(value[p].code, now) EXCEPT
                             !.times = value[p].times - 1],
                         Seconds(CodeTTLSecs), now)
    /\ Return(p, FALSE, ErrUnknownForCode)
    /\ misses' = [misses EXCEPT ![KeyOf(p)] = @ + 1]
    /\ UNCHANGED << now, advances, lastIssue, hits >>
    /\ UNCHANGED other

\* Verify, lines 180-184: the code differs
VerifyMismatch(p) ==
    /\ pc[p] = "put"
    /\ call[p].op = "Verify"
    /\ value[p].code # call[p].code
    /\ cache' = CachePut(cache, KeyOf(p),
                         Decremented(value[p]),
                         Seconds(CodeTTLSecs), now)
    /\ Return(p, FALSE, ErrUnknownForCode)
    /\ misses' = [misses EXCEPT ![KeyOf(p)] = @ + 1]
    /\ UNCHANGED << now, advances, lastIssue, hits >>
    /\ UNCHANGED other

\* Verify, lines 186-188: the code matches
VerifyMatch(p) ==
    /\ pc[p] = "put"
    /\ call[p].op = "Verify"
    /\ value[p].code = call[p].code
    /\ cache' = CachePut(cache, KeyOf(p),
                         Consumed(value[p]),
                         Seconds(ResidualSecs), now)
    /\ Return(p, TRUE, nil)
    /\ hits' = [hits EXCEPT ![KeyOf(p)] = @ + 1]
    /\ UNCHANGED << now, advances, lastIssue, misses >>
    /\ UNCHANGED other

\* go-cache's janitor goroutine, started by cache.New with a 10 minute
\* interval: DeleteExpired under go-cache's own lock, not under
\* LocalCodeCache.mutex.  It runs at any time from its first tick on.
Janitor ==
    /\ now >= Seconds(JanitorIntervalSecs)
    /\ \E k \in DOMAIN cache : Expired(cache[k], now)
    /\ cache' = CacheDeleteExpired(cache, now)
    /\ UNCHANGED << now, advances, mutex, pc, call, value, last,
                    lastIssue, hits, misses >>
    /\ UNCHANGED other

\* The wall clock moves on.  Every step of Deltas is far longer than a
\* critical section of Set or Verify (a few map operations), so the clock
\* is advanced only while no caller holds the mutex.
Advance ==
    /\ advances < MaxAdvances
    /\ mutex = 0
    /\ \E d \in Deltas : now' = now + d
    /\ advances' = advances + 1
    /\ UNCHANGED << cache, mutex, pc, call, value, last,
                    lastIssue, hits, misses >>
    /\ UNCHANGED other

\* NewCodeCache(): an empty store and a free mutex
Init ==
    /\ now = 0
    /\ advances = 0
    /\ cache = [k \in {} |-> 0]
    /\ mutex = 0
    /\ pc = [p \in Callers |-> "idle"]
    /\ call = [p \in Callers |-> NoCall]
    /\ value = [p \in Callers |-> NoValue]
    /\ last = NoReturn
    /\ lastIssue = [k \in Keys |-> NoIssue]
    /\ hits = [k \in Keys |-> 0]
    /\ misses = [k \in Keys |-> 0]
    /\ redis = [k \in {} |-> 0]
    /\ req = NoRequest
    /\ reply = NoReply
    /\ rlast = NoOutcome
    /\ owner = [k \in {} |-> 0]

Next ==
    \/ \E p \in Callers : Call(p)
    \/ \E p \in Callers : Lock(p)
    \/ \E p \in Callers : SetGet(p)
    \/ \E p \in Callers : SetPut(p)
    \/ \E p \in Callers : VerifyGet(p)
    \/ \E p \in Callers : VerifyMismatch(p)
    \/ \E p \in Callers : VerifyMatch(p)
    \/ Janitor
    \/ Advance

Spec == Init /\ [][Next]_vars

\* Scheduling: a goroutine that can run does run (weak fairness of the steps
\* made while holding the mutex), and sync.Mutex does not starve a waiter: a
\* waiter that fails to get the mutex for 1ms puts it in starvation mode,
\* where Unlock hands the mutex to the waiter at the head of the queue
\* (strong fairness of Lock).
Fairness ==
    \A p \in Callers :
        /\ SF_vars(Lock(p))
        /\ WF_vars(SetGet(p) \/ SetPut(p) \/ VerifyGet(p)
                      \/ VerifyMismatch(p) \/ VerifyMatch(p))

\* The callers alone, at one instant of the clock: which return path a call
\* takes depends on the clock, whether it returns does not.
NextFair ==
    \E p \in Callers :
        \/ Call(p)
        \/ Lock(p)
        \/ SetGet(p)
        \/ SetPut(p)
        \/ VerifyGet(p)
        \/ VerifyMismatch(p)
        \/ VerifyMatch(p)

SpecFair == Init /\ [][NextFair]_vars /\ Fairness

\* ------------------------------------------------------- RedisCodeCache
\* what the two procedures reply (spec 4.3): 0, -1 and -2 are the replies
\* RedisCodeCache tells apart; a key that holds no code is answered with a
\* reply that is none of them
ScriptNotFound == -3

\* the replies Eval(...).Int() can hand to RedisCodeCache: an integer and no
\* error, or an error and the zero int
Replies ==
    { [res |-> r, err |-> nil] : r \in (0 - MapRange)..MapRange }
        \cup { [res |-> 0, err |-> ErrEval] }

\* a Verify that takes every reply it does not know for a mismatch
RedisVerifyOutcomeSwallows(res, err) ==
    IF err # nil THEN [ok |-> FALSE, err |-> err]
    ELSE IF res = 0 THEN [ok |-> TRUE, err |-> nil]
    ELSE IF res = -1 THEN [ok |-> FALSE, err |-> ErrCodeVerifyTooManyTimes]
    ELSE [ok |-> FALSE, err |-> nil]

\* RedisCodeCache.Set, lines 52-67: the reply mapped to the returned error
\* (ok says that the error is nil)
RedisSetOutcome(res, err) ==
    IF err # nil THEN [ok |-> FALSE, err |-> err]
    ELSE IF res = 0 THEN [ok |-> TRUE, err |-> nil]
    ELSE IF res = -1 THEN [ok |-> FALSE, err |-> ErrCodeSendTooMany]
    ELSE [ok |-> FALSE, err |-> SystemError]

\* RedisCodeCache.Verify, lines 72-86: the reply mapped to (bool, error)
RedisVerifyOutcome(res, err) ==
    IF err # nil THEN [ok |-> FALSE, err |-> err]
    ELSE IF res = 0 THEN [ok |-> TRUE, err |-> nil]
    ELSE IF res = -1 THEN [ok |-> FALSE, err |-> ErrCodeVerifyTooManyTimes]
    ELSE IF res = -2 THEN [ok |-> FALSE, err |-> nil]
    ELSE [ok |-> FALSE, err |-> ErrUnknownForCode]

\* the remote store holds a value under k: one was set and its time-to-live
\* has not run out (counted as go-cache counts: a value is still held at the
\* instant its time-to-live ends)
RedisLive(r, k, t) == k \in DOMAIN r /\ t <= r[k].expireAt

\* Issue procedure (spec 4.3): with no value, or with a remaining
\* time-to-live of at most total TTL - cooldown, set the code, 3 attempts
\* and the total TTL and reply 0; otherwise reply -1 without mutation.
\* (Every value of the store carries a time-to-live, so the procedure's
\* "unexpected state" does not arise.)
IssueProcedure(r, k, code, t) ==
    IF \/ ~RedisLive(r, k, t)
       \/ r[k].expireAt - t <= Seconds(CodeTTLSecs - CooldownSecs)
      THEN [redis |-> [x \in DOMAIN r \cup {k} |->
                          IF x = k
                            THEN [code |-> code, cnt |-> InitTimes,
                                  expireAt |-> t + Seconds(CodeTTLSecs)]
                            ELSE r[x]],
            res |-> 0]
      ELSE [redis |-> r, res |-> -1]

\* Verify procedure (spec 4.3): attempts <= 0 replies -1 without mutation;
\* no stored code is not-found; a match sets the attempts to the disabled
\* sentinel and replies 0; a mismatch decrements the attempts and replies -2.
\* Neither touches the time-to-live.
VerifyProcedure(r, k, code, t) ==
    IF RedisLive(r, k, t) /\ r[k].cnt <= 0
      THEN [redis |-> r, res |-> -1]
    ELSE IF ~RedisLive(r, k, t)
      THEN [redis |-> r, res |-> ScriptNotFound]
    ELSE IF r[k].code = code
      THEN [redis |-> [r EXCEPT ![k].cnt = DisabledTimes], res |-> 0]
      ELSE [redis |-> [r EXCEPT ![k].cnt = @ - 1], res |-> -2]

\* RedisCodeCache.Set returns after Eval replied rp
RedisSetReply(rp) ==
    /\ reply' = [op |-> "Set", res |-> rp.res, err |-> rp.err]
    /\ rlast' = RedisSetOutcome(rp.res, rp.err)
    /\ UNCHANGED << now, advances, cache, mutex, pc, call, value, last,
                    lastIssue, hits, misses, redis, req, owner >>

\* RedisCodeCache.Verify returns after Eval replied rp
RedisVerifyReply(rp) ==
    /\ reply' = [op |-> "Verify", res |-> rp.res, err |-> rp.err]
    /\ rlast' = RedisVerifyOutcome(rp.res, rp.err)
    /\ UNCHANGED << now, advances, cache, mutex, pc, call, value, last,
                    lastIssue, hits, misses, redis, req, owner >>

\* RedisCodeCache alone, Eval replying anything it can
NextMap ==
    \E rp \in Replies :
        \/ RedisSetReply(rp)
        \/ RedisVerifyReply(rp)

SpecMap == Init /\ [][NextMap]_vars

\* ------------------------------------------------- one call, both backends
\* LocalCodeCache.Set as a whole (lines 127-149), on store c at clock t
LocalCodeCacheSet(c, k, code, t) ==
    IF Found(c, k, t) /\ TooFrequent(c[k].object, t)
      THEN [cache |-> c, ok |-> FALSE, err |-> ErrCodeSendTooMany]
      ELSE [cache |-> CachePut(c, k, getValue(code, t), Seconds(CodeTTLSecs), t),
            ok |-> TRUE, err |-> nil]

\* LocalCodeCache.Verify as a whole (lines 151-189), on store c at clock t
LocalCodeCacheVerify(c, k, code, t) ==
    IF ~Found(c, k, t)
      THEN [cache |-> c, ok |-> FALSE, err |-> ErrUnknownForCode]
    ELSE IF Exhausted(c[k].object)
      THEN [cache |-> c, ok |-> FALSE, err |-> ErrCodeVerifyTooManyTimes]
    ELSE IF c[k].object.code # code
      THEN [cache |-> CachePut(c, k, Decremented(c[k].object),
                               Seconds(CodeTTLSecs), t),
            ok |-> FALSE, err |-> ErrUnknownForCode]
      ELSE [cache |-> CachePut(c, k, Consumed(c[k].object),
                               Seconds(ResidualSecs), t),
            ok |-> TRUE, err |-> nil]

\* The same Set is made on LocalCodeCache and on RedisCodeCache, each call
\* running from entry to return; Eval does not fail.
SetBoth(b, ph, code) ==
    LET k == key(b, ph)
        l == LocalCodeCacheSet(cache, k, code, now)
        s == IssueProcedure(redis, k, code, now)
    IN  /\ req' = [op |-> "Set", biz |-> b, phone |-> ph, code |-> code]
        /\ cache' = l.cache
        /\ last' = [op |-> "Set", key |-> k, ok |-> l.ok, err |-> l.err]
        /\ owner' = IF l.ok
                      THEN [x \in DOMAIN owner \cup {k} |->
                               IF x = k THEN << b, ph >> ELSE owner[x]]
                      ELSE owner
        /\ redis' = s.redis
        /\ reply' = [op |-> "Set", res |-> s.res, err |-> nil]
        /\ rlast' = RedisSetOutcome(s.res, nil)
        /\ UNCHANGED << now, advances, mutex, pc, call, value,
                        lastIssue, hits, misses >>

\* The same Verify is made on both backends.
VerifyBoth(b, ph, code) ==
    LET k == key(b, ph)
        l == LocalCodeCacheVerify(cache, k, code, now)
        s == VerifyProcedure(redis, k, code, now)
    IN  /\ req' = [op |-> "Verify", biz |-> b, phone |-> ph, code |-> code]
        /\ cache' = l.cache
        /\ last' = [op |-> "Verify", key |-> k, ok |-> l.ok, err |-> l.err]
        /\ redis' = s.redis
        /\ reply' = [op |-> "Verify", res |-> s.res, err |-> nil]
        /\ rlast' = RedisVerifyOutcome(s.res, nil)
        /\ UNCHANGED << now, advances, mutex, pc, call, value,
                        lastIssue, hits, misses, owner >>

\* A sequence of calls on both backends, the clock advancing between them.
NextEquiv ==
    \/ \E b \in Bizs, ph \in Phones, code \in Codes : SetBoth(b, ph, code)
    \/ \E b \in Bizs, ph \in Phones, code \in Codes : VerifyBoth(b, ph, code)
    \/ Janitor
    \/ Advance

SpecEquiv == Init /\ [][NextEquiv]_vars

\* A sequence of calls for (biz, phone) pairs whose strings contain ':'.
NextKeys ==
    \/ \E b \in KeyBizs, ph \in KeyPhones, code \in Codes : SetBoth(b, ph, code)
    \/ \E b \in KeyBizs, ph \in KeyPhones, code \in Codes : VerifyBoth(b, ph, code)

SpecKeys == Init /\ [][NextKeys]_vars

\* ------------------------------------------------------- reading a step
\* caller p returns from a call of op in this step
Returns(p, op) == pc[p] # "idle" /\ pc'[p] = "idle" /\ call[p].op = op

\* the returned call r was a call of op that returned (ok, err)
Is(r, op, ok, err) == r.op = op /\ r.ok = ok /\ r.err = err

\* caller p returns (ok, err) from a call of op in this step
ReturnsWith(p, op, ok, err) ==
    Returns(p, op) /\ Is(last', op, ok, err) /\ last'.key = KeyOf(p)

\* the key has no record a Get would return: none in the map, or an expired one
Absent(k) == k \notin DOMAIN cache \/ now > cache[k].expiration

\* ------------------------------------------------------------------ claims

\* C1: for every key, two Set calls that both return nil are at least
\* CooldownSecs seconds apart, whatever happened between them (Set, matching
\* or mismatching Verify, expiry).  The seconds are those of the clock Set
\* reads, time.Now().Unix(): the reading most favourable to the code, which a
\* spacing of CooldownSecs seconds of wall clock always satisfies.
CooldownSpacing ==
    [][\A p \in Callers :
          ReturnsWith(p, "Set", TRUE, nil) =>
              \/ lastIssue[KeyOf(p)] = NoIssue
              \/ Unix(now) - Unix(lastIssue[KeyOf(p)]) >= CooldownSecs]_vars

\* C2: a Set that returns ErrCodeSendTooMany leaves the store as it was: no
\* step of a Set call other than the one that returns nil changes the cache
\* (code, attempts, createTime and expiration of the record included).
RejectedSetLeavesRecord ==
    [][\A p \in Callers :
          /\ pc'[p] # pc[p]
          /\ call[p].op = "Set" \/ call'[p].op = "Set"
          /\ ~ReturnsWith(p, "Set", TRUE, nil)
          => cache' = cache]_vars

\* C2 witness: a Set was turned away while the record had lost attempts
RejectedSetSeen ==
    /\ Is(last, "Set", FALSE, ErrCodeSendTooMany)
    /\ \E k \in DOMAIN cache :
          cache[k].object.times < InitTimes /\ now <= cache[k].expiration

\* C3: after a Set returned nil, a Set for the key made fewer than
\* CooldownSecs seconds later returns ErrCodeSendTooMany and one made
\* CooldownSecs seconds or more later goes on to return nil, stores its code
\* with InitTimes attempts, and Verify returns true only for the stored code.
\* Seconds are read as in C1.
ReissueAfterCooldown ==
    /\ [][\A p \in Callers :
            /\ pc[p] = "get" /\ pc'[p] # "get" /\ call[p].op = "Set"
            /\ lastIssue[KeyOf(p)] # NoIssue
            => IF Unix(now) - Unix(lastIssue[KeyOf(p)]) < CooldownSecs
                 THEN ReturnsWith(p, "Set", FALSE, ErrCodeSendTooMany)
                 ELSE pc'[p] = "put"]_vars
    /\ [][\A p \in Callers :
            pc[p] = "put" /\ Returns(p, "Set") =>
                /\ Is(last', "Set", TRUE, nil)
                /\ cache'[KeyOf(p)].object.code = call[p].code
                /\ cache'[KeyOf(p)].object.times = InitTimes]_vars
    /\ [][\A p \in Callers :
            Returns(p, "Verify") /\ last'.ok =>
                cache'[KeyOf(p)].object.code = call[p].code]_vars

\* C4: once a Verify has returned true, no Verify for the key returns true
\* before the next successful Set: each returns ErrCodeVerifyTooManyTimes
\* while the consumed record is still found and ErrUnknownForCode after.
NoDoubleConsumption ==
    /\ [](\A k \in Keys : hits[k] <= 1)
    /\ [][\A p \in Callers :
            Returns(p, "Verify") /\ hits[KeyOf(p)] >= 1 =>
                Is(last', "Verify", FALSE,
                   IF Absent(KeyOf(p)) THEN ErrUnknownForCode
                   ELSE ErrCodeVerifyTooManyTimes)]_vars

\* C4 witness: a Verify was refused on a record consumed by an earlier Verify
ConsumedThenRefused ==
    /\ Is(last, "Verify", FALSE, ErrCodeVerifyTooManyTimes)
    /\ \E k \in Keys : hits[k] = 1

\* C5: a Verify whose code differs from the stored one, on a live record
\* with attempts left, returns (false, nil) and lowers the attempts by one.
WrongCodeIsNormalResult ==
    [][\A p \in Callers :
          /\ Returns(p, "Verify")
          /\ pc[p] = "put"
          /\ value[p].code # call[p].code
          => /\ Is(last', "Verify", FALSE, nil)
             /\ cache'[KeyOf(p)].object.times = value[p].times - 1]_vars

\* C6: attempts start at InitTimes; each mismatching Verify returns
\* (false, nil) and lowers them by one; once InitTimes mismatches have
\* happened every further Verify on the still-live record returns
\* ErrCodeVerifyTooManyTimes, so at most InitTimes calls are compared.
AttemptLockout ==
    /\ [](\A k \in Keys : misses[k] + hits[k] <= InitTimes)
    /\ [][\A p \in Callers :
            Returns(p, "Verify") =>
                IF pc[p] = "get"
                  THEN misses[KeyOf(p)] >= InitTimes /\ ~Absent(KeyOf(p))
                          => Is(last', "Verify", FALSE, ErrCodeVerifyTooManyTimes)
                  ELSE value[p].code # call[p].code
                          => /\ misses[KeyOf(p)] < InitTimes
                             /\ Is(last', "Verify", FALSE, nil)
                             /\ cache'[KeyOf(p)].object.times
                                   = InitTimes - misses'[KeyOf(p)]]_vars

\* C7: Verify on a key with no record (never set, or expired) returns
\* (false, ErrUnknownForCode) and leaves the store unchanged, and a Set that
\* finds the key so goes on to store its code and return nil.
VerifyAbsentKey ==
    /\ [][\A p \in Callers :
            pc[p] = "get" /\ pc'[p] # "get" /\ Absent(KeyOf(p)) =>
                /\ cache' = cache
                /\ IF call[p].op = "Verify"
                     THEN ReturnsWith(p, "Verify", FALSE, ErrUnknownForCode)
                     ELSE pc'[p] = "put"]_vars
    /\ [][\A p \in Callers :
            pc[p] = "put" /\ pc'[p] # "put" /\ call[p].op = "Set" =>
                /\ ReturnsWith(p, "Set", TRUE, nil)
                /\ cache'[KeyOf(p)].object.code = call[p].code]_vars

\* C7 witness: a Verify returned ErrUnknownForCode on a record that is still
\* in the map, expired, and was never tried before
VerifyOnExpiredSeen ==
    /\ Is(last, "Verify", FALSE, ErrUnknownForCode)
    /\ \E k \in DOMAIN cache :
          /\ now > cache[k].expiration
          /\ cache[k].object.times = InitTimes

\* C8: a record's attempts never increase except in the step in which a Set
\* returns nil, which sets them to InitTimes; a Verify that stores the record
\* again stores fewer attempts than it read.
AttemptsNeverIncrease ==
    [][\A k \in DOMAIN cache' :
          \/ /\ k \in DOMAIN cache
             /\ cache'[k].object.times <= cache[k].object.times
          \/ \E p \in Callers :
                /\ KeyOf(p) = k
                /\ ReturnsWith(p, "Set", TRUE, nil)
                /\ cache'[k].object.times = InitTimes
          \/ \E p \in Callers :
                /\ KeyOf(p) = k
                /\ k \notin DOMAIN cache
                /\ Returns(p, "Verify")
                /\ cache'[k].object.times < value[p].times]_vars

\* C8 witness: a record re-issued after it was locked out or used
ReissuedRecordSeen ==
    /\ Is(last, "Set", TRUE, nil)
    /\ \E k \in DOMAIN cache :
          /\ cache[k].object.times = InitTimes
          /\ lastIssue[k] >= CooldownSecs * TicksPerSec

\* C9: callers racing to Set a key: a Set that finds no record goes on to
\* return nil, a Set returns nil only if no Set for the key returned nil
\* within the last CooldownSecs seconds of the Unix clock (unless a Verify
\* returned true since), every other Set returns ErrCodeSendTooMany, and the
\* record holds the winner's code with InitTimes attempts.
ConcurrentIssue ==
    /\ [](last.op = "Set" =>
             \/ last.ok /\ last.err = nil
             \/ ~last.ok /\ last.err = ErrCodeSendTooMany)
    /\ [][\A p \in Callers :
            pc[p] = "get" /\ pc'[p] # "get" /\ call[p].op = "Set"
            /\ Absent(KeyOf(p)) => pc'[p] = "put"]_vars
    /\ [][\A p \in Callers :
            pc[p] = "put" /\ pc'[p] # "put" /\ call[p].op = "Set"
            => Returns(p, "Set") /\ last'.ok]_vars
    /\ [][\A p \in Callers :
            Returns(p, "Set") /\ last'.ok =>
                /\ \/ lastIssue[KeyOf(p)] = NoIssue
                   \/ hits[KeyOf(p)] > 0
                   \/ Unix(now) - Unix(lastIssue[KeyOf(p)]) >= CooldownSecs
                /\ cache'[KeyOf(p)].object =
                      [code |-> call[p].code, times |-> InitTimes,
                       createTime |-> Unix(now)]]_vars

\* C9 witness: of the callers racing at the same instant one was turned away,
\* the winner's record is fresh and a caller still waits on the mutex
RaceLoserSeen ==
    /\ Is(last, "Set", FALSE, ErrCodeSendTooMany)
    /\ \E q \in Callers : pc[q] = "lock"
    /\ \E k \in DOMAIN cache :
          lastIssue[k] = now /\ cache[k].object.times = InitTimes

\* C10: concurrent Verify calls take effect one after the other: the stored
\* attempts are InitTimes less the mismatches returned since the issue (never
\* below 0), or DisabledTimes once one call has returned true; no second
\* call returns true, and while the consumed record is found the calls after
\* the matching one returned ErrCodeVerifyTooManyTimes.
ConcurrentVerifySerializes ==
    \A k \in Keys :
        /\ hits[k] <= 1
        /\ misses[k] <= InitTimes
        /\ k \in DOMAIN cache =>
              cache[k].object.times =
                 IF hits[k] = 1 THEN DisabledTimes ELSE InitTimes - misses[k]
        /\ hits[k] = 1 /\ ~Absent(k) /\ last.key = k /\ last.op = "Verify"
              => \/ Is(last, "Verify", TRUE, nil)
                 \/ Is(last, "Verify", FALSE, ErrCodeVerifyTooManyTimes)

\* C10 witness: a caller is inside Verify holding the mutex, another waits on
\* Lock, and the record has one attempt left
VerifyRaceSeen ==
    \E p, q \in Callers :
        /\ p # q
        /\ pc[p] = "put" /\ call[p].op = "Verify"
        /\ pc[q] = "lock"
        /\ value[p].times = 1

\* C12: a code lives at most CodeTTLSecs seconds: a Verify made later than
\* that after the Set that issued the code finds no record and does not
\* return true, whatever Verify calls were made in between.  ("Later than"
\* is the reading most favourable to the code: go-cache still returns an
\* item at the very instant of its expiration.)
CodeLifetime ==
    [][\A p \in Callers :
          /\ pc[p] = "get" /\ pc'[p] # "get" /\ call[p].op = "Verify"
          /\ lastIssue[KeyOf(p)] # NoIssue
          /\ now - lastIssue[KeyOf(p)] > CodeTTLSecs * TicksPerSec
          => ReturnsWith(p, "Verify", FALSE, ErrUnknownForCode)]_vars

\* C13: Set succeeds whenever the key has no unconsumed record: no record,
\* an expired one, or one consumed by a Verify that returned true (attempts
\* at DisabledTimes), however recently it was issued.
SetSucceedsWithoutUnconsumedRecord ==
    [][\A p \in Callers :
          /\ pc[p] = "get" /\ pc'[p] # "get" /\ call[p].op = "Set"
          /\ \/ Absent(KeyOf(p))
             \/ cache[KeyOf(p)].object.times = DisabledTimes
          => pc'[p] = "put"]_vars

\* C14: a Verify that finds a record with no attempts left returns
\* ErrCodeVerifyTooManyTimes and leaves the store untouched: code, attempts,
\* createTime and expiration are as before.
LockedOutVerifyLeavesRecord ==
    [][\A p \in Callers :
          /\ pc[p] = "get" /\ pc'[p] # "get" /\ call[p].op = "Verify"
          /\ ~Absent(KeyOf(p))
          /\ cache[KeyOf(p)].object.times <= 0
          => /\ ReturnsWith(p, "Verify", FALSE, ErrCodeVerifyTooManyTimes)
             /\ cache' = cache]_vars

\* C14 witness: a Verify was refused on a record locked out by mismatches
LockedOutRefusedSeen ==
    /\ Is(last, "Verify", FALSE, ErrCodeVerifyTooManyTimes)
    /\ \E k \in DOMAIN cache :
          /\ cache[k].object.times = 0
          /\ last.key = k
          /\ now <= cache[k].expiration

\* C19: every stored record has DisabledTimes, 0, 1, ..., InitTimes attempts;
\* DisabledTimes exactly when a Verify has returned true since the Set that
\* issued it; and a mismatch lowers only attempts that are above 0.
AttemptsRange ==
    /\ [](\A k \in DOMAIN cache :
            /\ cache[k].object.times \in {DisabledTimes} \cup 0..InitTimes
            /\ cache[k].object.times = DisabledTimes <=> hits[k] = 1)
    /\ [][\A p \in Callers :
            Returns(p, "Verify") /\ misses'[KeyOf(p)] # misses[KeyOf(p)] =>
                /\ cache'[KeyOf(p)].object.times >= 0
                /\ KeyOf(p) \in DOMAIN cache =>
                      cache[KeyOf(p)].object.times > 0]_vars

\* C19 witness: a record brought to 0 attempts by mismatches
ZeroAttemptsSeen ==
    \E k \in DOMAIN cache :
        cache[k].object.times = 0 /\ misses[k] = InitTimes /\ hits[k] = 0

\* C20: Verify never changes a record's code or createTime.  A mismatch
\* changes the attempts and sets the expiration CodeTTLSecs seconds after
\* the Verify; a match sets the attempts to DisabledTimes and the expiration
\* ResidualSecs seconds after the Verify; nothing else of the store changes.
\* So createTime is always that of the last Set that returned nil.
VerifyKeepsCodeAndCreateTime ==
    /\ [](\A k \in DOMAIN cache :
            cache[k].object.createTime = Unix(lastIssue[k]))
    /\ [][\A p \in Callers :
            pc'[p] # pc[p] /\ call[p].op = "Verify" =>
                IF pc[p] = "put"
                  THEN /\ DOMAIN cache' = DOMAIN cache \cup {KeyOf(p)}
                       /\ \A k \in DOMAIN cache \ {KeyOf(p)} : cache'[k] = cache[k]
                       /\ cache'[KeyOf(p)].object.code = value[p].code
                       /\ cache'[KeyOf(p)].object.createTime = value[p].createTime
                       /\ KeyOf(p) \in DOMAIN cache =>
                             /\ cache'[KeyOf(p)].object.code
                                   = cache[KeyOf(p)].object.code
                             /\ cache'[KeyOf(p)].object.createTime
                                   = cache[KeyOf(p)].object.createTime
                       /\ IF last'.ok
                            THEN /\ cache'[KeyOf(p)].object.times = DisabledTimes
                                 /\ cache'[KeyOf(p)].expiration
                                       = now + ResidualSecs * TicksPerSec
                            ELSE /\ cache'[KeyOf(p)].object.times
                                       = value[p].times - 1
                                 /\ cache'[KeyOf(p)].expiration
                                       = now + CodeTTLSecs * TicksPerSec
                  ELSE cache' = cache]_vars

\* C20 witness: a mismatching Verify has stored the record again, later
\* than the Set that issued it
MismatchLaterThanIssueSeen ==
    \E k \in DOMAIN cache :
        /\ misses[k] >= 1 /\ hits[k] = 0
        /\ cache[k].expiration > lastIssue[k] + CodeTTLSecs * TicksPerSec
        /\ cache[k].object.createTime = Unix(lastIssue[k])

\* C15: a Set or Verify whose ctx is already cancelled or timed out leaves
\* the store unchanged and returns an error, never a normal outcome.  (Any
\* error is taken for the system error the call owes: the reading most
\* favourable to the code.)
CancelledCallHasNoEffect ==
    [][\A p \in Callers :
          pc'[p] # pc[p] /\ call[p].ctxDone =>
              /\ cache' = cache
              /\ pc'[p] = "idle" => ~last'.ok /\ last'.err # nil]_vars

\* C17: a caller is between Lock and return exactly while it holds the
\* mutex, so the store is read and written under the mutex only, at most one
\* caller is inside Set or Verify, and every return path releases the mutex;
\* and under fair scheduling every call that waits on Lock returns.
LockDiscipline ==
    /\ [](\A p \in Callers : pc[p] \in {"get", "put"} <=> mutex = p)
    /\ [][cache' # cache =>
             \/ \E p \in Callers : mutex = p /\ pc'[p] # pc[p]
             \/ Janitor]_vars
    /\ \A p \in Callers : (pc[p] = "lock") ~> (pc[p] = "idle")

\* C17 witness: a caller has returned and released the mutex while another
\* caller waits on Lock
ReleasedWhileOtherWaits ==
    /\ mutex = 0
    /\ last.op # ""
    /\ \E p, q \in Callers : p # q /\ pc[p] = "idle" /\ pc[q] = "lock"

\* C16: RedisCodeCache maps every reply exactly.  Set returns nil iff the
\* reply is 0, ErrCodeSendTooMany iff it is -1, SystemError for every other
\* integer.  Verify returns (true, nil) iff the reply is 0, (false,
\* ErrCodeVerifyTooManyTimes) iff -1, (false, nil) iff -2, (false,
\* ErrUnknownForCode) for every other integer.  An error of Eval is returned
\* as it is, with false.  So true never comes with an error.
RedisOutcomeMapping ==
    /\ reply.op = "Set" =>
          /\ rlast.err = nil <=> reply.err = nil /\ reply.res = 0
          /\ rlast.err = ErrCodeSendTooMany <=> reply.err = nil /\ reply.res = -1
          /\ rlast.err = SystemError <=> reply.err = nil /\ reply.res \notin {0, -1}
          /\ reply.err # nil => rlast.err = reply.err
    /\ reply.op = "Verify" =>
          /\ rlast = [ok |-> TRUE, err |-> nil]
                <=> reply.err = nil /\ reply.res = 0
          /\ rlast = [ok |-> FALSE, err |-> ErrCodeVerifyTooManyTimes]
                <=> reply.err = nil /\ reply.res = -1
          /\ rlast = [ok |-> FALSE, err |-> nil]
                <=> reply.err = nil /\ reply.res = -2
          /\ rlast = [ok |-> FALSE, err |-> ErrUnknownForCode]
                <=> reply.err = nil /\ reply.res \notin {0, -1, -2}
          /\ reply.err # nil => rlast = [ok |-> FALSE, err |-> reply.err]
    /\ rlast.ok => rlast.err = nil

\* C16 witness: Verify has mapped a reply that is none of 0, -1, -2
UnknownReplySeen ==
    /\ reply.op = "Verify" /\ reply.err = nil
    /\ reply.res \notin {0, -1, -2}
    /\ rlast = [ok |-> FALSE, err |-> ErrUnknownForCode]

\* C11: whatever calls were made before, and however the clock advanced
\* between them, the same call returns the same outcome from LocalCodeCache
\* and from RedisCodeCache: the same matched value and the same error.
BackendsAgree ==
    req.op # "" => rlast.ok = last.ok /\ rlast.err = last.err

\* C18: a Set or Verify for one (biz, phone) pair reads and changes no
\* record stored by a Set for a different pair: the record it finds under
\* its key, and every record it changes, was stored for its own pair.
PairIsolation ==
    [][\A b \in KeyBizs, ph \in KeyPhones, code \in Codes :
          SetBoth(b, ph, code) \/ VerifyBoth(b, ph, code) =>
              /\ ~Absent(key(b, ph)) => owner[key(b, ph)] = << b, ph >>
              /\ \A k \in DOMAIN cache :
                    cache'[k] # cache[k] => owner[k] = << b, ph >>]_vars

====
